---- MODULE Spec2Model ----
(***************************************************************************)
(* p4-whodunit.py: for each file argument, run 'p4 -s annotate', parse the *)
(* annotation stream, resolve the owner of every change through a cache    *)
(* in front of 'p4 describe -s', and print an aligned report.              *)
(*                                                                         *)
(* A line of command output is modelled by what the program's searches see *)
(* in it: kind "info" (contains 'info:'), "exit" (contains 'exit:'),       *)
(* "text" (matches the text-record pattern), "blank" and "junk" (none of   *)
(* these).  Raw(l) is the characters of the line.  The payloads of the     *)
(* modelled text records contain neither 'info:' nor 'exit:'.              *)
(***************************************************************************)
EXTENDS Integers, Sequences, FiniteSets, TLC

\* ---------------------------------------------------------------- bounds
\* Largest number of file arguments of a run.
MaxFiles == 2
\* Largest number of body lines the annotate commands of one run print in
\* total.
MaxLines == 3

\* ------------------------------------------------------ the environment
\* The change numbers of the depot and who submitted each.
Changes == {10, 20, 30}
Owner == (10 :> "amy") @@ (20 :> "bob") @@ (30 :> "cleo")

\* The payload of the i-th body line (payloads never steer the program).
Texts == <<"alpha", "beta", "gamma", "delta", "epsilon">>
Text(i) == IF i <= Len(Texts) THEN Texts[i] ELSE "line" \o ToString(i)

InfoLine(c)  == [kind |-> "info", change |-> c, from |-> 0, to |-> 0, text |-> ""]
TextLine(f, t, s) == [kind |-> "text", change |-> 0, from |-> f, to |-> t, text |-> s]
ExitLine     == [kind |-> "exit", change |-> 0, from |-> 0, to |-> 0, text |-> ""]
BlankLine    == [kind |-> "blank", change |-> 0, from |-> 0, to |-> 0, text |-> ""]
JunkLine     == [kind |-> "junk", change |-> 0, from |-> 0, to |-> 0, text |-> ""]

\* The characters of a line.  An info line with change 0 has no
\* 'change <N>' token.
Raw(l) ==
    CASE l.kind = "info" ->
           IF l.change = 0 THEN "info: file#3"
           ELSE "info: file#3 - edit change " \o ToString(l.change) \o " (text)"
      [] l.kind = "text" ->
           "text: " \o ToString(l.from) \o "-" \o ToString(l.to) \o ":" \o l.text
      [] l.kind = "exit" -> "exit:"
      [] l.kind = "blank" -> ""
      [] OTHER -> "junk"

\* First lines the annotate command may print.
Headers == {InfoLine(c) : c \in Changes \cup {0}} \cup {JunkLine}
\* What may follow the body: the terminator, the terminator and the empty
\* piece that split('\n') leaves after a final newline, or no terminator.
Tails == {<<ExitLine>>, <<ExitLine, BlankLine>>, <<BlankLine>>, <<>>}
\* A body line: a revision range from-to with from <= to, or a line that is
\* no text record.
Ranges == {r \in Changes \X Changes : r[1] <= r[2]}
BodyLineAt(i) ==
    {TextLine(r[1], r[2], Text(i)) : r \in Ranges}
        \cup {JunkLine}
RECURSIVE BodiesFrom(_, _)
BodiesFrom(i, n) ==
    IF n = 0 THEN {<<>>}
    ELSE {<<l>> \o b : l \in BodyLineAt(i), b \in BodiesFrom(i + 1, n - 1)}
\* The bodies of at most n lines.
Bodies(n) == UNION {BodiesFrom(1, k) : k \in 0..n}

\* Output of 'p4 describe -s <cln>' as get_owner's scan sees it: the exit
\* status and the first line matching 'Change (\d+) by ([^@]+)@', if any.
\* The depot answers with the record of the requested change; a wrong
\* record, no record and a failing command are the faults.
DescribeOutputs ==
    {[ret |-> 0, match |-> TRUE, change |-> d, owner |-> Owner[d]] : d \in Changes}
        \cup {[ret |-> 0, match |-> FALSE, change |-> 0, owner |-> ""],
              [ret |-> 1, match |-> FALSE, change |-> 0, owner |-> ""]}

\* ------------------------------------------------------------- helpers
Max(a, b) == IF a >= b THEN a ELSE b

\* int(math.log10(n) + 1) for n >= 1: the number of decimal digits.  The
\* code keeps the running maxima as floats and truncates them once, which
\* gives the maximum of the truncated values.
RECURSIVE Digits(_)
Digits(n) == IF n < 10 THEN 1 ELSE 1 + Digits(n \div 10)

RECURSIVE Spaces(_)
Spaces(n) == IF n <= 0 THEN "" ELSE " " \o Spaces(n - 1)

\* '%*s' % (w, s) and '%*d': right-justified in at least w characters.
PadLeft(s, w) == Spaces(w - Len(s)) \o s
\* '%-*s' % (w, s): left-justified in at least w characters, never cut.
PadRightWrong(s, w) == Spaces(w - Len(s)) \o s
PadRight(s, w) == s \o Spaces(w - Len(s))

\* lines[0].find('info:') < 0 and lines[k].find('exit:') < 0
HasInfo(l) == l.kind = "info"
HasExit(l) == l.kind = "exit"
\* re.search(r'change\s+(\d+)', lines[0])
HasChange(l) == l.kind = "info" /\ l.change # 0
\* re.search of the text-record pattern 'text: <from>-<to>:<payload>'.
IsText(l) == l.kind = "text"

\* The statement order of process(): what follows the header checks, the
\* loop over the text records and the first print.
NextStepEarlyPrint == [header |-> "print", print |-> "loop", loop |-> "widths"]
NextStep == [header |-> "loop", loop |-> "print", print |-> "widths"]

\* The classification test of the loop.
IsPresentBoth(cl_from, cl_to, lat) == cl_from = lat /\ cl_to = lat
IsPresent(cl_from, cl_to, lat) == cl_from = lat \/ cl_to = lat

\* The line counter after a record of the given type.
NextLinenoAlways(n, present) == n + 1
NextLineno(n, present) == IF present THEN n + 1 ELSE n

\* get_owner: the owner, or the error it ends the run with.
GetOwnerUnchecked(cln, out) ==
    IF out.ret # 0 THEN [ok |-> FALSE, owner |-> "", msg |-> "command failed"]
    ELSE IF ~out.match
         THEN [ok |-> FALSE, owner |-> "", msg |-> "record not found"]
         ELSE [ok |-> TRUE, owner |-> out.owner, msg |-> ""]
GetOwner(cln, out) ==
    IF out.ret # 0 THEN [ok |-> FALSE, owner |-> "", msg |-> "command failed"]
    ELSE LET change == IF out.match THEN out.change ELSE 0
         IN  IF change # cln
             THEN [ok |-> FALSE, owner |-> "", msg |-> "record not found"]
             ELSE IF ~out.match
                  THEN [ok |-> FALSE, owner |-> "", msg |-> "record not found"]
                  ELSE [ok |-> TRUE, owner |-> out.owner, msg |-> ""]

\* get_cl_owner: the cache test and the cache update.
CacheHitNever(cache, cln) == FALSE
CacheHit(cache, cln) == cln \in DOMAIN cache
CacheStoreNothing(cache, cln, owner) == cache
CacheStore(cache, cln, owner) == (cln :> owner) @@ cache

\* clr_len from the four running maxima.
ClrLenNoEllipsis(td, tl, fd, fl) == td + tl + 1 + fd + fl + 1
ClrLen(td, tl, fd, fl) == td + tl + 1 + fd + fl + 1 + 5

\* One report line.
Frec(rec) == ToString(rec.from) \o "@" \o rec.from_owner
Trec(rec) == ToString(rec.to) \o "@" \o rec.to_owner
Clr(rec) == IF rec.type = "present" THEN Frec(rec)
            ELSE Frec(rec) \o " ... " \o Trec(rec)
Lnum(rec, w) == IF rec.type = "present" THEN PadLeft(ToString(rec.lineno), w)
                ELSE PadLeft("-", w)
Render(rec, w, clen) ==
    Lnum(rec, w) \o " " \o PadRight(Clr(rec), clen) \o " " \o rec.sep \o " " \o rec.text

\* --------------------------------------------------------------- state
VARIABLES
    nfiles,                 \* len(opts['files'])
    cur,                    \* position of main's loop in opts['files']
    pc,                     \* where the program is
    exitcode,               \* exit status of the process, -1 while it runs
    errmsg,                 \* the diagnostic the run ended with
    fstatus,                \* per file: "pending", "running", "done", "failed"
    lines, last, latest,    \* locals of process()
    data, cl_owner,
    cl_to_max_digits, cl_from_max_digits,
    cl_to_owner_max_len, cl_from_owner_max_len,
    lineno, idx, cl_from_owner, cl_to_owner,
    lineno_digits, clr_len, ridx,
    printed,                \* what the current call of process() has printed
    ndescribe,              \* lookup commands of the current call, per change
    ndescribe_run,          \* lookup commands of the whole run, per change
    lookup_log,             \* output of each lookup of the current call
    fed                     \* body lines the annotate commands have printed

ctl == <<nfiles, cur, pc, exitcode, errmsg, fstatus>>
parsed == <<lines, last, latest>>
widths == <<cl_to_max_digits, cl_from_max_digits,
            cl_to_owner_max_len, cl_from_owner_max_len>>
loopv == <<data, lineno, idx>>
owners == <<cl_owner, cl_from_owner, cl_to_owner>>
layout == <<lineno_digits, clr_len, ridx>>
cmds == <<ndescribe, ndescribe_run, lookup_log, fed>>
vars == <<ctl, parsed, widths, loopv, owners, layout, printed, cmds>>

NoCount == [c \in Changes |-> 0]
NoLog == <<>>

Init ==
    /\ nfiles \in 1..MaxFiles
    /\ cur = 1
    /\ pc = "main"
    /\ exitcode = -1
    /\ errmsg = ""
    /\ fstatus = [i \in 1..nfiles |-> "pending"]
    /\ lines = <<>> /\ last = -1 /\ latest = 0
    /\ data = <<>> /\ cl_owner = <<>>
    /\ cl_to_max_digits = 1 /\ cl_from_max_digits = 1
    /\ cl_to_owner_max_len = 0 /\ cl_from_owner_max_len = 0
    /\ lineno = 0 /\ idx = 2 /\ cl_from_owner = "" /\ cl_to_owner = ""
    /\ lineno_digits = 0 /\ clr_len = 0 /\ ridx = 1
    /\ printed = <<>>
    /\ ndescribe = NoCount /\ ndescribe_run = NoCount /\ lookup_log = NoLog
    /\ fed = 0

\* err(): print the diagnostic and sys.exit(1).
ErrNoExit(msg) ==
    /\ pc' = "main"
    /\ cur' = cur + 1
    /\ exitcode' = exitcode
    /\ errmsg' = msg
    /\ fstatus' = [fstatus EXCEPT ![cur] = "failed"]
    /\ UNCHANGED nfiles
Err(msg) ==
    /\ pc' = "aborted"
    /\ cur' = cur
    /\ exitcode' = 1
    /\ errmsg' = msg
    /\ fstatus' = [fstatus EXCEPT ![cur] = "failed"]
    /\ UNCHANGED nfiles

\* An exception nothing catches: traceback and exit status 1.
Raise(exc) ==
    /\ pc' = "aborted"
    /\ cur' = cur
    /\ exitcode' = 1
    /\ errmsg' = exc
    /\ fstatus' = [fstatus EXCEPT ![cur] = "failed"]
    /\ UNCHANGED nfiles

Goto(step) ==
    /\ pc' = step
    /\ UNCHANGED <<nfiles, cur, exitcode, errmsg, fstatus>>

\* main's loop enters process(ifn): the annotate command and the split.
Process ==
    /\ pc = "main" /\ cur <= nfiles
    /\ UNCHANGED <<last, latest, widths, loopv, owners, layout, printed>>
    /\ UNCHANGED <<ndescribe, ndescribe_run, lookup_log>>
    /\ \E ret \in {0, 1} :
         IF ret # 0
         THEN /\ lines' = <<>>
              /\ fed' = fed
              /\ Err("command failed")
         ELSE /\ \E h \in Headers, b \in Bodies(MaxLines - fed), t \in Tails :
                     \* lines = out.split('\n')
                     /\ lines' = <<h>> \o b \o t
                     /\ fed' = fed + Len(b)
              /\ pc' = "header"
              /\ fstatus' = [fstatus EXCEPT ![cur] = "running"]
              /\ UNCHANGED <<nfiles, cur, exitcode, errmsg>>

\* The checks of the first and of the last lines, and the latest change.
CheckHeader ==
    /\ pc = "header"
    /\ UNCHANGED <<lines, widths, loopv, owners, layout, printed, cmds>>
    /\ IF ~HasInfo(lines[1])
       THEN Err("cannot find info: record") /\ UNCHANGED <<last, latest>>
       ELSE IF ~HasExit(lines[Len(lines)]) /\ Len(lines) < 2
       THEN Raise("IndexError") /\ UNCHANGED <<last, latest>>
       ELSE IF ~HasExit(lines[Len(lines)]) /\ ~HasExit(lines[Len(lines) - 1])
       THEN Err("cannot find exit: record") /\ last' = -2 /\ UNCHANGED latest
       ELSE /\ last' = IF HasExit(lines[Len(lines)]) THEN -1 ELSE -2
            /\ IF HasChange(lines[1])
               THEN latest' = lines[1].change /\ Goto(NextStep.header)
               ELSE Err("cannot find the latest change list number")
                    /\ UNCHANGED latest

\* for line in lines[1:last]: the match of one line, or the end of the loop.
MatchLine ==
    /\ pc = "loop"
    /\ UNCHANGED <<parsed, widths, loopv, owners, layout, printed, cmds>>
    /\ IF idx > Len(lines) + last
       THEN Goto(NextStep.loop)
       ELSE IF IsText(lines[idx])
            THEN Goto("from")
            ELSE Err("unrecognized line")

\* The caller's assignment of the owner get_cl_owner returns.
Assign(target, o) ==
    IF target = "from"
    THEN cl_from_owner' = o /\ UNCHANGED cl_to_owner
    ELSE cl_to_owner' = o /\ UNCHANGED cl_from_owner

\* get_cl_owner(cln): out of the cache, or one lookup command.
GetClOwner(cln, target, step) ==
    IF CacheHit(cl_owner, cln)
    THEN /\ Assign(target, cl_owner[cln])
         /\ Goto(step)
         /\ UNCHANGED <<cl_owner, cmds>>
    ELSE \E out \in DescribeOutputs :
           LET r == GetOwner(cln, out) IN
           /\ ndescribe' = [ndescribe EXCEPT ![cln] = @ + 1]
           /\ ndescribe_run' = [ndescribe_run EXCEPT ![cln] = @ + 1]
           /\ lookup_log' = Append(lookup_log, [cln |-> cln, out |-> out])
           /\ fed' = fed
           /\ IF r.ok
              THEN /\ cl_owner' = CacheStore(cl_owner, cln, r.owner)
                   /\ Assign(target, r.owner)
                   /\ Goto(step)
              ELSE /\ Err(r.msg)
                   /\ UNCHANGED <<cl_owner, cl_from_owner, cl_to_owner>>

\* cl_from_owner = get_cl_owner(cl_from)
GetFromOwner ==
    /\ pc = "from"
    /\ UNCHANGED <<parsed, widths, loopv, layout, printed>>
    /\ GetClOwner(lines[idx].from, "from", "to")

\* cl_to_owner = get_cl_owner(cl_to)
GetToOwner ==
    /\ pc = "to"
    /\ UNCHANGED <<parsed, widths, loopv, layout, printed>>
    /\ GetClOwner(lines[idx].to, "to", "rec")

\* The rest of the loop body: classify, build the record, update the maxima.
BuildRecord ==
    /\ pc = "rec"
    /\ LET cl_from == lines[idx].from
           cl_to == lines[idx].to
           present == IsPresent(cl_from, cl_to, latest)
           n == NextLineno(lineno, present)
           rec == [from |-> cl_from, from_owner |-> cl_from_owner,
                   lineno |-> n,
                   sep |-> IF present THEN "|" ELSE "-",
                   text |-> lines[idx].text,
                   to |-> cl_to, to_owner |-> cl_to_owner,
                   type |-> IF present THEN "present" ELSE "deleted"]
       IN  /\ lineno' = n
           /\ data' = Append(data, rec)
           /\ cl_to_max_digits' = Max(cl_to_max_digits, Digits(cl_to))
           /\ cl_from_max_digits' = Max(cl_from_max_digits, Digits(cl_from))
           /\ cl_to_owner_max_len' = Max(cl_to_owner_max_len, Len(cl_to_owner))
           /\ cl_from_owner_max_len' = Max(cl_from_owner_max_len, Len(cl_from_owner))
    /\ idx' = idx + 1
    /\ Goto("loop")
    /\ UNCHANGED <<parsed, owners, layout, printed, cmds>>

\* print(lines[0].strip())
PrintHeader ==
    /\ pc = "print"
    /\ printed' = Append(printed, Raw(lines[1]))
    /\ Goto(NextStep.print)
    /\ UNCHANGED <<parsed, widths, loopv, owners, layout, cmds>>

\* lineno_digits and clr_len; math.log10(0) raises ValueError.
ComputeWidths ==
    /\ pc = "widths"
    /\ UNCHANGED <<parsed, widths, loopv, owners, ridx, printed, cmds>>
    /\ IF lineno = 0
       THEN Raise("ValueError") /\ UNCHANGED <<lineno_digits, clr_len>>
       ELSE /\ lineno_digits' = Digits(lineno)
            /\ clr_len' = ClrLen(cl_to_max_digits, cl_to_owner_max_len,
                                 cl_from_max_digits, cl_from_owner_max_len)
            /\ Goto("render")

\* for rec in data: one report line.
RenderRecord ==
    /\ pc = "render" /\ ridx <= Len(data)
    /\ lineno' = data[ridx].lineno
    /\ printed' = Append(printed, Render(data[ridx], lineno_digits, clr_len))
    /\ ridx' = ridx + 1
    /\ Goto("render")
    /\ UNCHANGED <<parsed, widths, data, idx, owners, lineno_digits, clr_len, cmds>>

\* The trailing print(lines[0].strip()).
PrintTrailer ==
    /\ pc = "render" /\ ridx > Len(data)
    /\ printed' = Append(printed, Raw(lines[1]))
    /\ pc' = "returned"
    /\ fstatus' = [fstatus EXCEPT ![cur] = "done"]
    /\ UNCHANGED <<nfiles, cur, exitcode, errmsg>>
    /\ UNCHANGED <<parsed, widths, loopv, owners, layout, cmds>>

\* process() returns, its locals are gone, and main's loop moves on.
Return ==
    /\ pc = "returned"
    /\ pc' = "main"
    /\ cur' = cur + 1
    /\ lines' = <<>> /\ last' = -1 /\ latest' = 0
    /\ data' = <<>> /\ cl_owner' = <<>>
    /\ cl_to_max_digits' = 1 /\ cl_from_max_digits' = 1
    /\ cl_to_owner_max_len' = 0 /\ cl_from_owner_max_len' = 0
    /\ lineno' = 0 /\ idx' = 2 /\ cl_from_owner' = "" /\ cl_to_owner' = ""
    /\ lineno_digits' = 0 /\ clr_len' = 0 /\ ridx' = 1
    /\ printed' = <<>>
    /\ ndescribe' = NoCount /\ lookup_log' = NoLog
    /\ UNCHANGED <<nfiles, exitcode, errmsg, fstatus, ndescribe_run, fed>>

\* main's loop is exhausted: the program ends with status 0.
Finish ==
    /\ pc = "main" /\ cur > nfiles
    /\ pc' = "exit"
    /\ exitcode' = 0
    /\ UNCHANGED <<nfiles, cur, errmsg, fstatus>>
    /\ UNCHANGED <<parsed, widths, loopv, owners, layout, printed, cmds>>

Next ==
    \/ Process
    \/ CheckHeader
    \/ MatchLine
    \/ GetFromOwner
    \/ GetToOwner
    \/ BuildRecord
    \/ PrintHeader
    \/ ComputeWidths
    \/ RenderRecord
    \/ PrintTrailer
    \/ Return
    \/ Finish

Spec == Init /\ [][Next]_vars

\* ------------------------------------------------------------ properties
\* Index in a stream of its last body line.
EndOf(ls) == IF HasExit(ls[Len(ls)]) THEN Len(ls) - 1 ELSE Len(ls) - 2

\* An info header with a change token, text records only, and the
\* terminator, alone or followed by one blank piece.
WellFormed(ls) ==
    /\ Len(ls) >= 2
    /\ HasChange(ls[1])
    /\ \/ HasExit(ls[Len(ls)])
       \/ Len(ls) >= 3 /\ ls[Len(ls)].kind = "blank" /\ HasExit(ls[Len(ls) - 1])
    /\ \A i \in 2..EndOf(ls) : IsText(ls[i])

\* The change numbers the body of a stream refers to.
Referenced(ls) ==
    {ls[i].from : i \in 2..EndOf(ls)} \cup {ls[i].to : i \in 2..EndOf(ls)}

\* The lookup output names the change that was asked for.
Confirms(e) == e.out.ret = 0 /\ e.out.match /\ e.out.change = e.cln
LookupsOk == \A i \in 1..Len(lookup_log) : Confirms(lookup_log[i])

PresentIdx == {i \in 1..Len(data) : data[i].type = "present"}

\* C1: a record is 'present' with separator '|' exactly when its from or its
\* to change is the latest change of the header; every other record is
\* 'deleted' with separator '-'.
C1_StatusIffLatest ==
    \A i \in 1..Len(data) :
        /\ data[i].type = "present" <=> (data[i].from = latest \/ data[i].to = latest)
        /\ data[i].type = "present" => data[i].sep = "|"
        /\ data[i].type # "present" => data[i].type = "deleted" /\ data[i].sep = "-"

C1_Witness ==
    \E i, j \in 1..Len(data) :
        /\ data[i].type = "present" /\ data[i].from # latest
        /\ data[j].type = "deleted"

\* C2: the counter equals the number of present records, and the present
\* records carry, in stream order, the numbers 1, 2, ..., N; a deleted record
\* does not advance the counter.
C2_LineNumbers ==
    /\ pc \in {"loop", "from", "to", "rec", "print", "widths"}
          => lineno = Cardinality(PresentIdx)
    /\ \A i \in PresentIdx :
          data[i].lineno = Cardinality({j \in PresentIdx : j <= i})

C2_Witness ==
    /\ pc = "print" /\ Len(data) = 3 /\ lineno = 2
    /\ data[1].type = "present" /\ data[2].type = "deleted"
    /\ data[3].type = "present"

\* C3: once the body of a file is consumed, exactly one lookup command was
\* issued for every change number its stream refers to, and none for any
\* other.
C3_OneLookupPerChange ==
    pc \in {"print", "widths", "render", "returned"} =>
        \A c \in Changes :
            ndescribe[c] = IF c \in Referenced(lines) THEN 1 ELSE 0

C3_Witness ==
    /\ pc = "returned"
    /\ \E i, j \in 2..EndOf(lines) :
          /\ i # j
          /\ lines[i].from = lines[i].to
          /\ lines[j].from = lines[i].from

\* C4: an owner is cached for a change only from a lookup output that names
\* that change; any other lookup output ends the run with 'record not found'
\* and caches nothing; every record carries the owners the lookups reported
\* for its own from and to changes.
C4_OwnerConfirmed ==
    /\ \A i \in 1..Len(lookup_log) :
          LET e == lookup_log[i] IN
          IF Confirms(e)
          THEN e.cln \in DOMAIN cl_owner /\ cl_owner[e.cln] = e.out.owner
          ELSE /\ e.cln \notin DOMAIN cl_owner
               /\ pc = "aborted" /\ exitcode = 1
               /\ e.out.ret = 0 => errmsg = "record not found"
    /\ \A c \in DOMAIN cl_owner :
          \E i \in 1..Len(lookup_log) : lookup_log[i].cln = c
    /\ \A k \in 1..Len(data) :
          \E i, j \in 1..Len(lookup_log) :
             /\ lookup_log[i].cln = data[k].from /\ Confirms(lookup_log[i])
             /\ lookup_log[i].out.owner = data[k].from_owner
             /\ lookup_log[j].cln = data[k].to /\ Confirms(lookup_log[j])
             /\ lookup_log[j].out.owner = data[k].to_owner

C4_Witness ==
    /\ pc = "aborted" /\ errmsg = "record not found"
    /\ Len(data) >= 1 /\ Len(lookup_log) >= 1
    /\ LET e == lookup_log[Len(lookup_log)] IN
          e.out.match /\ e.out.change # e.cln

\* C5: when a file fails with a failing command, a format error or an
\* unconfirmed lookup, the run has ended with a non-zero status and nothing
\* of the file's report has been printed.
FatalKinds ==
    {"command failed", "cannot find info: record", "cannot find exit: record",
     "IndexError", "cannot find the latest change list number",
     "unrecognized line", "record not found"}
C5_NoPartialReport ==
    (cur <= nfiles /\ fstatus[cur] = "failed" /\ errmsg \in FatalKinds)
        => pc = "aborted" /\ exitcode # 0 /\ exitcode # -1 /\ printed = <<>>

C5_Witness ==
    /\ pc = "aborted" /\ errmsg = "unrecognized line"
    /\ Len(data) >= 1 /\ printed = <<>>

\* C6: clr_len is at least the length of the change/owner column of every
\* record, and every printed record line has its text in the same column.
C6_ColumnFits ==
    pc \in {"render", "returned"} =>
        /\ \A i \in 1..Len(data) : Len(Clr(data[i])) <= clr_len
        /\ \A i \in 1..(ridx - 1) :
              Len(printed[i + 1]) - Len(data[i].text)
                  = lineno_digits + clr_len + 4

C6_Witness ==
    /\ pc = "returned"
    /\ \E i, j \in 1..Len(data) :
          /\ data[i].type = "deleted" /\ Len(Clr(data[i])) = clr_len
          /\ data[j].type = "present" /\ Len(Clr(data[j])) < clr_len

\* C7: on a well-formed stream whose lookups all succeed, process() neither
\* fails nor stops short: it prints the header, one report line per body
\* line in stream order, and the header again.
C7_CompleteReport ==
    (pc \in {"aborted", "returned"} /\ WellFormed(lines) /\ LookupsOk) =>
        /\ pc = "returned"
        /\ Len(printed) = EndOf(lines) + 1
        /\ printed[1] = Raw(lines[1])
        /\ printed[Len(printed)] = Raw(lines[1])
        /\ \A i \in 2..EndOf(lines) :
              /\ data[i - 1].text = lines[i].text
              /\ printed[i] = Render(data[i - 1], lineno_digits, clr_len)

\* C8: files are processed one at a time in argument order: every step of
\* the program is taken with all earlier files done and all later files
\* untouched, and no step follows the failure of a file.
C8_Sequential ==
    [][\A i \in 1..nfiles :
          /\ i < cur => fstatus[i] = "done"
          /\ i > cur => fstatus[i] = "pending"
          /\ fstatus[i] # "failed"]_vars

C8_Witness ==
    /\ nfiles >= 2 /\ pc = "aborted" /\ cur = 1
    /\ fstatus[1] = "failed" /\ fstatus[2] = "pending"
    /\ Len(lookup_log) >= 1

\* C9 (as amended): header 'change 30', body '10-30:alpha' and '10-20:beta',
\* owners amy, bob, cleo for 10, 20, 30: line 1 is present with '10@amy',
\* '|' and 'alpha'; 'beta' is a deleted record showing '10@amy ... 20@bob'
\* with '-'.
Scenario ==
    /\ pc = "returned"
    /\ lines = <<InfoLine(30), TextLine(10, 30, "alpha"),
                 TextLine(10, 20, "beta"), ExitLine>>
C9_ScenarioReport ==
    Scenario =>
        printed = <<"info: file#3 - edit change 30 (text)",
                    "1 10@amy             | alpha",
                    "- 10@amy ... 20@bob  - beta",
                    "info: file#3 - edit change 30 (text)">>

C9_Witness == Scenario /\ Len(printed) = 4 /\ LookupsOk

\* C9 as stated: the deleted record shows '10@amy ... 20@cleo'.
C9_Original ==
    Scenario =>
        /\ printed[2] = "1 10@amy             | alpha"
        /\ printed[3] = "- 10@amy ... 20@cleo - beta"

\* C10 (as amended): within the processing of one file at most one lookup
\* command is issued per change number, so over a run a change number is
\* looked up at most once per file that has been started.
FilesStarted == Cardinality({i \in 1..nfiles : fstatus[i] # "pending"})
C10_OneLookupPerFile ==
    \A c \in Changes : ndescribe[c] <= 1 /\ ndescribe_run[c] <= FilesStarted

C10_Witness ==
    /\ pc = "returned" /\ cur = 2
    /\ \E c \in Changes : ndescribe_run[c] = 2 /\ ndescribe[c] = 1

\* C10 as stated: at most one lookup command per change number per run.
C10_Original == \A c \in Changes : ndescribe_run[c] <= 1
====
